---- MODULE Spec2Model ----
(***************************************************************************)
(* A model of the incontext timeline generator:                            *)
(*   src/timeline_generator.py  the pipeline (articles -> events ->        *)
(*                              time buckets -> substories -> timeline)    *)
(*   src/backend/main.py        the request boundary (POST /timeline)      *)
(*                                                                         *)
(* One request is followed from the import of the module to the HTTP       *)
(* response.  External collaborators (NewsAPI, trafilatura, the OpenAI     *)
(* client, KMeans, HDBSCAN) are nondeterministic: every outcome their      *)
(* interface allows is a branch of the action that calls them.             *)
(*                                                                         *)
(* Strings the code compares or parses are modelled as sequences:          *)
(*   - a date string is a sequence of code points ("/" = 47, "0" = 48),    *)
(*     compared the way Python compares str and parsed the way             *)
(*     datetime.strptime(s, "%Y/%m/%d") parses it;                         *)
(*   - a summarization response is a sequence of tokens ("Title:",         *)
(*     "Summary:", " ", "\n", "a"), each an indivisible piece of text.     *)
(* An event is a record [date]: its text and its source_url are carried    *)
(* along and never read by the pipeline.  The lists of the pipeline hold   *)
(* the positions of the events in `events` (Python holds references to the *)
(* same dict objects, so two equal events are still two occurrences).      *)
(***************************************************************************)
EXTENDS Integers, Sequences, FiniteSets, TLC

VARIABLES
    OPENAI_API_KEY,     \* os.getenv("OPENAI_API_KEY") is set
    NEWSAPI_KEY,        \* os.getenv("NEWSAPI_KEY") is set
    pc,                 \* where the request is
    articles,           \* number of articles extract_events is still to be called on
    events,             \* the events extracted so far, then the list clustered
    time_groups,        \* sorted(time_clusters.items(), key=min date): the groups
    grp_i,              \* position of the for loop over time_groups
    time_group,         \* the current bucket, sorted by date
    sem_labels,         \* the labels HDBSCAN gave the events of time_group
    semantic_clusters,  \* cluster_events(time_group): <<[label, items]>> in dict order
    sub_i,              \* position of the for loop over semantic_clusters
    substories,         \* substories of the current bucket
    full_timeline,      \* segments appended so far
    response,           \* the HTTP response of generate_timeline
    exc,                \* the exception that ended the run ("none": none)
    calls,              \* kinds of outbound calls issued so far
    cluster_calls,      \* per bucket, how often cluster_events was invoked
    output,             \* text of a summarization response (parsing specification)
    parsed              \* what summarize_with_gpt made of `output`

vars == << OPENAI_API_KEY, NEWSAPI_KEY, pc, articles, events, time_groups,
           grp_i, time_group, sem_labels, semantic_clusters, sub_i, substories,
           full_timeline, response, exc, calls, cluster_calls, output, parsed >>

----------------------------------------------------------------------------
(* Bounds of the model *)

MaxArticles == 2
MaxPerArticle == 3
MaxEvents == 5
MaxOutLen == 7
MaxLongRunEvents == 6

(* Constants of the program *)

n_clusters == 4
SubclusterThreshold == 5
min_cluster_size == 2

----------------------------------------------------------------------------
(* Date strings an extraction can return.  All are accepted by             *)
(* strptime(s, "%Y/%m/%d"); the second is not zero padded and is the same  *)
(* day as the third.                                                       *)

DateStrs ==
    << << 50,48,50,52, 47, 49,50, 47, 51,49 >>,      \* "2024/12/31"
       << 50,48,50,53, 47, 54, 47, 53 >>,            \* "2025/6/5"
       << 50,48,50,53, 47, 48,54, 47, 48,53 >>,      \* "2025/06/05"
       << 50,48,50,53, 47, 49,48, 47, 48,49 >>,      \* "2025/10/01"
       << 50,48,50,53, 47, 49,49, 47, 48,57 >> >>    \* "2025/11/09"

DateIds == 1..Len(DateStrs)

MinOf(a, b) == IF a <= b THEN a ELSE b

\* Python's str < str: code point by code point, a proper prefix is smaller.
StrLess(a, b) ==
    \/ \E i \in 1..MinOf(Len(a), Len(b)) :
          /\ a[i] < b[i]
          /\ \A j \in 1..(i - 1) : a[j] = b[j]
    \/ /\ Len(a) < Len(b)
       /\ \A j \in 1..Len(a) : a[j] = b[j]

\* min(...) over strings
StrMin(S) == CHOOSE s \in S : \A t \in S : ~StrLess(t, s)

\* int() of a run of digits
RECURSIVE ToInt(_)
ToInt(s) ==
    IF s = << >> THEN 0 ELSE 10 * ToInt(SubSeq(s, 1, Len(s) - 1)) + (s[Len(s)] - 48)

AllDigits(s) == \A i \in 1..Len(s) : s[i] \in 48..57

IsLeap(y) == (y % 4 = 0 /\ y % 100 # 0) \/ y % 400 = 0

DaysInMonth(y, m) ==
    IF m = 2 THEN (IF IsLeap(y) THEN 29 ELSE 28)
    ELSE IF m \in {4, 6, 9, 11} THEN 30 ELSE 31

RECURSIVE DaysBeforeMonth(_, _)
DaysBeforeMonth(y, m) ==
    IF m = 1 THEN 0 ELSE DaysBeforeMonth(y, m - 1) + DaysInMonth(y, m - 1)

\* datetime.toordinal(): days since 0001-01-01, that day being 1
ToOrdinal(y, m, d) ==
    LET p == y - 1
    IN  p * 365 + (p \div 4) - (p \div 100) + (p \div 400) + DaysBeforeMonth(y, m) + d

\* The three fields of a string of the shape Y/M/D, or << >> when the string has
\* another shape.  %Y takes exactly four digits, %m and %d one or two.
DateFields(s) ==
    LET slashes == { i \in 1..Len(s) : s[i] = 47 }
    IN  IF Cardinality(slashes) # 2 THEN << >>
        ELSE LET p1 == CHOOSE i \in slashes : \A j \in slashes : i <= j
                 p2 == CHOOSE i \in slashes : \A j \in slashes : j <= i
                 ys == SubSeq(s, 1, p1 - 1)
                 ms == SubSeq(s, p1 + 1, p2 - 1)
                 ds == SubSeq(s, p2 + 1, Len(s))
             IN  IF /\ Len(ys) = 4 /\ Len(ms) \in 1..2 /\ Len(ds) \in 1..2
                    /\ AllDigits(ys) /\ AllDigits(ms) /\ AllDigits(ds)
                 THEN << ToInt(ys), ToInt(ms), ToInt(ds) >>
                 ELSE << >>

\* datetime.strptime(s, "%Y/%m/%d") returns a date (it raises ValueError otherwise)
StrptimeAccepts(s) ==
    LET f == DateFields(s)
    IN  /\ f # << >>
        /\ f[1] >= 1
        /\ f[2] \in 1..12
        /\ f[3] \in 1..DaysInMonth(f[1], f[2])

\* (datetime.strptime(date_str, "%Y/%m/%d") - datetime(2000, 1, 1)).days
date_to_days(s) ==
    LET f == DateFields(s)
    IN  ToOrdinal(f[1], f[2], f[3]) - ToOrdinal(2000, 1, 1)

----------------------------------------------------------------------------
(* sorted(xs, key=...): a stable sort.  `key` is a function from the       *)
(* elements of xs to strings.                                              *)

RECURSIVE InsertSorted(_, _, _)
InsertSorted(x, s, key) ==
    IF s = << >> THEN << x >>
    ELSE IF StrLess(key[x], key[Head(s)]) THEN << x >> \o s
    ELSE << Head(s) >> \o InsertSorted(x, Tail(s), key)

RECURSIVE SortedBy(_, _)
SortedBy(s, key) ==
    IF s = << >> THEN << >>
    ELSE InsertSorted(s[Len(s)], SortedBy(SubSeq(s, 1, Len(s) - 1), key), key)

\* key=lambda e: e['date'], over the positions of `evs`
DateKey(evs) == [ i \in 1..Len(evs) |-> DateStrs[evs[i].date] ]

Range(s) == { s[i] : i \in 1..Len(s) }

----------------------------------------------------------------------------
(* Grouping by label: clustered.setdefault(label, []).append(item).  A     *)
(* dict is a sequence of [label, items] in insertion order.                *)

HasLabel(d, label) == \E j \in 1..Len(d) : d[j].label = label

SetDefaultAppend(d, label, x) ==
    IF HasLabel(d, label)
    THEN [ j \in 1..Len(d) |->
             IF d[j].label = label THEN [ d[j] EXCEPT !.items = Append(@, x) ] ELSE d[j] ]
    ELSE Append(d, [ label |-> label, items |-> << x >> ])

RECURSIVE GroupByLabel(_, _, _)
GroupByLabel(items, labels, n) ==
    IF n = 0 THEN << >>
    ELSE SetDefaultAppend(GroupByLabel(items, labels, n - 1), labels[n], items[n])

\* A grouping that keeps only the last item of a label (grouped[label] = [item]).
SetOverwrite(d, label, x) ==
    IF HasLabel(d, label)
    THEN [ j \in 1..Len(d) |->
             IF d[j].label = label THEN [ d[j] EXCEPT !.items = << x >> ] ELSE d[j] ]
    ELSE Append(d, [ label |-> label, items |-> << x >> ])

RECURSIVE GroupOverwrite(_, _, _)
GroupOverwrite(items, labels, n) ==
    IF n = 0 THEN << >>
    ELSE SetOverwrite(GroupOverwrite(items, labels, n - 1), labels[n], items[n])

\* A grouping that skips the noise label (if label == -1: continue).
RECURSIVE GroupSkipNoise(_, _, _)
GroupSkipNoise(items, labels, n) ==
    IF n = 0 THEN << >>
    ELSE IF labels[n] = -1 THEN GroupSkipNoise(items, labels, n - 1)
    ELSE SetDefaultAppend(GroupSkipNoise(items, labels, n - 1), labels[n], items[n])

----------------------------------------------------------------------------
(* cluster_by_time *)

\* date_vals: the day offset of every event
DateVals(evs) == [ i \in 1..Len(evs) |-> date_to_days(DateStrs[evs[i].date]) ]

\* KMeans(n_clusters).fit_predict(date_vals) returns labels (it raises ValueError
\* on no sample and on fewer samples than clusters)
KMeansAccepts(vals) == Len(vals) >= 1 /\ Len(vals) >= n_clusters

\* The labels KMeans can return for one-dimensional values.  Every point has
\* the label of its nearest centre, so equal values share a label and a cluster
\* is an interval of the sorted values.  k-means++ seeds the centres on distinct
\* points and an empty cluster is relocated, so there are
\* min(n_clusters, number of distinct values) clusters.  Which intervals, and
\* which label each gets (a rotation, in either direction, of the rank of the
\* interval), is open.  `cuts` are the ranks at which a new interval starts.
KMeansLabels(vals) ==
    LET distinct == Range(vals)
        m        == Cardinality(distinct)
        rank(v)  == Cardinality({ u \in distinct : u < v })
        group(cuts, v) == Cardinality({ c \in cuts : c <= rank(v) })
        name(r, up, g) == IF up THEN (g + r) % n_clusters
                          ELSE (n_clusters - 1 - g + r) % n_clusters
    IN  { [ i \in 1..Len(vals) |-> name(r, up, group(cuts, vals[i])) ] :
            cuts \in { c \in SUBSET (1..(m - 1)) :
                         Cardinality(c) + 1 = MinOf(n_clusters, m) },
            r \in 0..(n_clusters - 1),
            up \in BOOLEAN }

cluster_by_time_overwrite(evs, labels) ==
    GroupOverwrite([ i \in 1..Len(evs) |-> i ], labels, Len(evs))

\* the dict `grouped` for the labels KMeans returned
cluster_by_time(evs, labels) ==
    GroupByLabel([ i \in 1..Len(evs) |-> i ], labels, Len(evs))

\* sorted(time_clusters.items(), key=lambda x: min(e['date'] for e in x[1])):
\* the groups in that order (the loop never reads the label)
SortedTimeGroups(d, evs) ==
    LET key   == [ j \in 1..Len(d) |->
                     StrMin({ DateStrs[evs[i].date] : i \in Range(d[j].items) }) ]
        order == SortedBy([ j \in 1..Len(d) |-> j ], key)
    IN  [ k \in 1..Len(d) |-> d[order[k]].items ]

\* sorted(group, key=lambda e: e['date'])
SortedByDate(group, evs) == SortedBy(group, DateKey(evs))

BelowThresholdOffByOne(group) == Len(group) <= SubclusterThreshold

\* if len(time_group) < 5
BelowThreshold(group) == Len(group) < SubclusterThreshold

\* f"{time_group[0]['date']} - {time_group[-1]['date']}": the two dates
TimeWindow(group, evs) == << evs[group[1]].date, evs[group[Len(group)]].date >>

----------------------------------------------------------------------------
(* cluster_events *)

\* HDBSCAN(min_cluster_size=2).fit_predict(embeddings): -1 is noise, the
\* clusters are numbered from 0 and each has at least min_cluster_size points.
\* Which points are noise and which share a cluster is open.
HdbscanLabels(n) ==
    LET top == (n \div min_cluster_size) - 1
        members(l, c) == { i \in 1..n : l[i] = c }
    IN  { l \in [ 1..n -> (-1)..top ] :
            \A c \in 0..top :
               \/ members(l, c) = {}
               \/ /\ Cardinality(members(l, c)) >= min_cluster_size
                  /\ c > 0 => members(l, c - 1) # {} }

cluster_events_skip_noise(group, labels) == GroupSkipNoise(group, labels, Len(group))

\* the dict `clustered` for the labels HDBSCAN returned
cluster_events(group, labels) == GroupByLabel(group, labels, Len(group))

----------------------------------------------------------------------------
(* summarize_with_gpt: the parsing of the response *)

Tokens == { "Title:", "Summary:", " ", "\n", "a" }

IsSpace(t) == t \in { " ", "\n" }

\* str.strip()
RECURSIVE LStrip(_)
LStrip(s) == IF s # << >> /\ IsSpace(Head(s)) THEN LStrip(Tail(s)) ELSE s

RECURSIVE RStrip(_)
RStrip(s) ==
    IF s # << >> /\ IsSpace(s[Len(s)]) THEN RStrip(SubSeq(s, 1, Len(s) - 1)) ELSE s

Strip(s) == RStrip(LStrip(s))

\* str.splitlines()
RECURSIVE SplitLines(_)
SplitLines(s) ==
    IF s = << >> THEN << >>
    ELSE LET nl == { i \in 1..Len(s) : s[i] = "\n" }
         IN  IF nl = {} THEN << s >>
             ELSE LET p == CHOOSE i \in nl : \A j \in nl : i <= j
                  IN  << SubSeq(s, 1, p - 1) >> \o SplitLines(SubSeq(s, p + 1, Len(s)))

\* line.startswith(label)
StartsWith(line, label) == line # << >> /\ line[1] = label

\* line.replace(label, ""): every occurrence goes
Replace(line, label) == SelectSeq(line, LAMBDA t : t # label)

\* the for loop over output.splitlines()
RECURSIVE ParseLines(_, _, _)
ParseLines(lines, title, summary) ==
    IF lines = << >> THEN [ title |-> title, summary |-> summary ]
    ELSE LET line == Head(lines)
         IN  IF StartsWith(line, "Title:")
             THEN ParseLines(Tail(lines), Strip(Replace(line, "Title:")), summary)
             ELSE IF StartsWith(line, "Summary:")
             THEN ParseLines(Tail(lines), title, Strip(Replace(line, "Summary:")))
             ELSE IF title # << >> /\ summary # << >>
             THEN [ title |-> title, summary |-> summary ]
             ELSE ParseLines(Tail(lines), title, summary)

\* title, summary of a response text
summarize_parse(text) == ParseLines(SplitLines(Strip(text)), << >>, << >>)

\* Responses the summarization call returns in a run of the pipeline
SummaryOutputs ==
    { << "Title:", " ", "a", "\n", "Summary:", " ", "a" >> }

----------------------------------------------------------------------------
(* The request: generate_timeline -> run_incontext *)

NoResponse == [ status |-> 0, detail |-> "", timeline |-> << >> ]

\* return TimelineResponse(**result)
TimelineResponse(timeline) == [ status |-> 200, detail |-> "", timeline |-> timeline ]

\* raise HTTPException(status_code=500, detail=f"Error generating timeline: {e}")
HTTPException(e) == [ status |-> 500, detail |-> e, timeline |-> << >> ]

Init ==
    /\ OPENAI_API_KEY \in BOOLEAN
    /\ NEWSAPI_KEY \in BOOLEAN
    /\ pc = "import"
    /\ articles = 0
    /\ events = << >>
    /\ time_groups = << >>
    /\ grp_i = 0
    /\ time_group = << >>
    /\ sem_labels = << >>
    /\ semantic_clusters = << >>
    /\ sub_i = 0
    /\ substories = << >>
    /\ full_timeline = << >>
    /\ response = NoResponse
    /\ exc = "none"
    /\ calls = {}
    /\ cluster_calls = << >>
    /\ output = << >>
    /\ parsed = [ title |-> << >>, summary |-> << >> ]

\* The frames of the pipeline are gone once an exception has left them.
DropLocals ==
    /\ time_groups' = << >>
    /\ grp_i' = 0
    /\ time_group' = << >>
    /\ sem_labels' = << >>
    /\ semantic_clusters' = << >>
    /\ sub_i' = 0
    /\ substories' = << >>
    /\ cluster_calls' = << >>

\* An exception swallowed on the way: what was built so far is returned.
RaisePartial(e) ==
    /\ exc' = e
    /\ response' = TimelineResponse(full_timeline)
    /\ pc' = "done"
    /\ full_timeline' = full_timeline
    /\ DropLocals

\* An exception raised inside run_incontext: nothing on the way catches it, the
\* except clause of generate_timeline turns it into the response.
Raise(e) ==
    /\ exc' = e
    /\ response' = HTTPException(e)
    /\ pc' = "done"
    /\ full_timeline' = << >>
    /\ DropLocals

\* Import of timeline_generator: OpenAI(api_key=None) raises OpenAIError when the
\* environment gives no key; NEWSAPI_KEY is read and not looked at.
Import ==
    /\ pc = "import"
    /\ \/ /\ ~OPENAI_API_KEY
          /\ pc' = "import_error"
          /\ exc' = "OpenAIError"
       \/ /\ OPENAI_API_KEY
          /\ pc' = "request"
          /\ exc' = exc
    /\ UNCHANGED << OPENAI_API_KEY, NEWSAPI_KEY, articles, events, time_groups,
                    grp_i, time_group, sem_labels, semantic_clusters, sub_i,
                    substories, full_timeline, response, calls, cluster_calls,
                    output, parsed >>

\* get_articles: the search is requested whatever NEWSAPI_KEY is; a response
\* without "articles" (the answer to a request without a key) gives [].
GetArticles ==
    /\ pc = "request"
    /\ calls' = calls \cup { "search" }
    /\ \/ /\ Raise("search")
          /\ UNCHANGED << articles, events >>
       \/ /\ \E n \in (IF NEWSAPI_KEY THEN 0..MaxArticles ELSE { 0 }) :
                /\ articles' = n
                /\ pc' = IF n = 0 THEN "partition" ELSE "extract"
          /\ UNCHANGED << events, time_groups, grp_i, time_group, sem_labels,
                          semantic_clusters, sub_i, substories, full_timeline,
                          response, exc, cluster_calls >>
    /\ UNCHANGED << OPENAI_API_KEY, NEWSAPI_KEY, output, parsed >>

\* The next element of [extract_events(article) for article in articles]
NextArticle ==
    /\ articles' = articles - 1
    /\ pc' = IF articles = 1 THEN "partition" ELSE "extract"
    /\ UNCHANGED << time_groups, grp_i, time_group, sem_labels, semantic_clusters,
                    sub_i, substories, full_timeline, response, exc, cluster_calls >>

\* Event lists an article can give: up to MaxPerArticle dates
EventLists(room) ==
    UNION { [ 1..k -> DateIds ] : k \in 0..MinOf(MaxPerArticle, room) }

\* extract_events(article), with gpt_event_exraction and extract_text; `lists`
\* are the event lists the language model can answer with
ExtractEventsOf(lists) ==
    /\ pc = "extract"
    /\ \/ \* extract_text returns None or "": return []
          /\ calls' = calls \cup { "page" }
          /\ NextArticle
          /\ UNCHANGED events
       \/ \* client.chat.completions.create raises
          /\ calls' = calls \cup { "page", "extract_llm" }
          /\ Raise("extract_llm")
          /\ articles' = 0
          /\ events' = << >>
       \/ \* json.loads raises JSONDecodeError: return []
          /\ calls' = calls \cup { "page", "extract_llm" }
          /\ NextArticle
          /\ UNCHANGED events
       \/ \* JSON that is no list of objects: e['source_url'] = ... raises TypeError
          /\ calls' = calls \cup { "page", "extract_llm" }
          /\ Raise("extract_shape")
          /\ articles' = 0
          /\ events' = << >>
       \/ \* a list of {event, date} objects
          /\ calls' = calls \cup { "page", "extract_llm" }
          /\ \E ds \in lists :
                events' = events \o [ i \in 1..Len(ds) |-> [ date |-> ds[i] ] ]
          /\ NextArticle
    /\ UNCHANGED << OPENAI_API_KEY, NEWSAPI_KEY, output, parsed >>

ExtractEvents == ExtractEventsOf(EventLists(MaxEvents - Len(events)))

\* cluster_temporal_then_semantic, up to the head of its loop:
\* cluster_by_time(events), full_timeline = [], sorted(time_clusters.items(), ...)
Partition ==
    /\ pc = "partition"
    /\ \/ /\ Len(events) = 0
          /\ Raise("kmeans_no_samples")
       \/ /\ Len(events) > 0
          /\ ~KMeansAccepts(DateVals(events))
          /\ Raise("kmeans_few_samples")
       \/ /\ KMeansAccepts(DateVals(events))
          /\ \E labels \in KMeansLabels(DateVals(events)) :
                /\ time_groups' = SortedTimeGroups(cluster_by_time(events, labels), events)
                /\ cluster_calls' = [ g \in 1..Len(time_groups') |-> 0 ]
          /\ grp_i' = 1
          /\ full_timeline' = << >>
          /\ pc' = "bucket"
          /\ UNCHANGED << time_group, sem_labels, semantic_clusters, sub_i,
                          substories, response, exc >>
    /\ UNCHANGED << OPENAI_API_KEY, NEWSAPI_KEY, articles, events, calls, output, parsed >>

\* One substory: title, summary from the response, the events as given
Substory(out, evs) ==
    [ title |-> summarize_parse(out).title, summary |-> summarize_parse(out).summary,
      events |-> evs ]

\* A bucket below the threshold: one summary, one substory, one segment
SummarizeGroup ==
    /\ pc = "bucket"
    /\ grp_i <= Len(time_groups)
    /\ BelowThreshold(time_groups[grp_i])
    /\ calls' = calls \cup { "summarize_llm" }
    /\ LET sorted == SortedByDate(time_groups[grp_i], events)
       IN  \/ Raise("summarize")
           \/ /\ \E out \in SummaryOutputs :
                    full_timeline' = Append(full_timeline,
                        [ time_window |-> TimeWindow(sorted, events),
                          substories  |-> << Substory(out, sorted) >> ])
              /\ time_group' = sorted
              /\ grp_i' = grp_i + 1
              /\ UNCHANGED << pc, time_groups, sem_labels, semantic_clusters,
                              sub_i, substories, response, exc, cluster_calls >>
    /\ UNCHANGED << OPENAI_API_KEY, NEWSAPI_KEY, articles, events, output, parsed >>

\* A bucket at or over the threshold: cluster_events(time_group)
ClusterEvents ==
    /\ pc = "bucket"
    /\ grp_i <= Len(time_groups)
    /\ ~BelowThreshold(time_groups[grp_i])
    /\ LET sorted == SortedByDate(time_groups[grp_i], events)
       IN  \/ \* model.encode or fit_predict raises
              Raise("cluster_events")
           \/ /\ \E labels \in HdbscanLabels(Len(sorted)) :
                    /\ sem_labels' = labels
                    /\ semantic_clusters' = cluster_events(sorted, labels)
              /\ time_group' = sorted
              /\ cluster_calls' = [ cluster_calls EXCEPT ![grp_i] = @ + 1 ]
              /\ substories' = << >>
              /\ sub_i' = 1
              /\ pc' = "substory"
              /\ UNCHANGED << time_groups, grp_i, full_timeline, response, exc >>
    /\ UNCHANGED << OPENAI_API_KEY, NEWSAPI_KEY, articles, events, calls, output, parsed >>

\* One turn of the loop over semantic_clusters.items()
SummarizeCluster ==
    /\ pc = "substory"
    /\ sub_i <= Len(semantic_clusters)
    /\ calls' = calls \cup { "summarize_llm" }
    /\ LET sorted == SortedByDate(semantic_clusters[sub_i].items, events)
       IN  \/ Raise("summarize")
           \/ /\ \E out \in SummaryOutputs :
                    substories' = Append(substories, Substory(out, sorted))
              /\ sub_i' = sub_i + 1
              /\ UNCHANGED << pc, time_groups, grp_i, time_group, sem_labels,
                              semantic_clusters, full_timeline, response, exc,
                              cluster_calls >>
    /\ UNCHANGED << OPENAI_API_KEY, NEWSAPI_KEY, articles, events, output, parsed >>

\* After the loop over the clusters: the bucket's segment
AppendSegment ==
    /\ pc = "substory"
    /\ sub_i > Len(semantic_clusters)
    /\ full_timeline' = Append(full_timeline,
            [ time_window |-> TimeWindow(time_group, events), substories |-> substories ])
    /\ grp_i' = grp_i + 1
    /\ pc' = "bucket"
    /\ UNCHANGED << OPENAI_API_KEY, NEWSAPI_KEY, articles, events, time_groups,
                    time_group, sem_labels, semantic_clusters, sub_i, substories,
                    response, exc, calls, cluster_calls, output, parsed >>

\* return full_timeline; return {"query", "timeline"}; return TimelineResponse(**result)
Return ==
    /\ pc = "bucket"
    /\ grp_i > Len(time_groups)
    /\ response' = TimelineResponse(full_timeline)
    /\ pc' = "done"
    /\ UNCHANGED << OPENAI_API_KEY, NEWSAPI_KEY, articles, events, time_groups,
                    grp_i, time_group, sem_labels, semantic_clusters, sub_i,
                    substories, full_timeline, exc, calls, cluster_calls, output,
                    parsed >>

Next ==
    \/ Import
    \/ GetArticles
    \/ ExtractEvents
    \/ Partition
    \/ SummarizeGroup
    \/ ClusterEvents
    \/ SummarizeCluster
    \/ AppendSegment
    \/ Return

Spec == Init /\ [][Next]_vars

----------------------------------------------------------------------------
(* The same request with longer runs over fewer dates: up to               *)
(* MaxLongRunEvents events, dated "2024/12/31", "2025/10/01" or            *)
(* "2025/11/09", so that a run can hold a bucket below the threshold and a *)
(* bucket at or over it.                                                   *)

LongRunDateIds == { 1, 4, 5 }

LongRunLists(room) == { ds \in EventLists(room) : Range(ds) \subseteq LongRunDateIds }

ExtractEventsLongRun == ExtractEventsOf(LongRunLists(MaxLongRunEvents - Len(events)))

NextLongRun ==
    \/ Import
    \/ GetArticles
    \/ ExtractEventsLongRun
    \/ Partition
    \/ SummarizeGroup
    \/ ClusterEvents
    \/ SummarizeCluster
    \/ AppendSegment
    \/ Return

SpecLongRun == Init /\ [][NextLongRun]_vars

----------------------------------------------------------------------------
(* The parsing of summarize_with_gpt on its own: one response text, parsed *)

RECURSIVE TextsUpTo(_)
TextsUpTo(n) == IF n = 0 THEN { << >> } ELSE TextsUpTo(n - 1) \cup [ 1..n -> Tokens ]

InitParse ==
    /\ OPENAI_API_KEY = TRUE
    /\ NEWSAPI_KEY = TRUE
    /\ pc = "parse"
    /\ articles = 0
    /\ events = << >>
    /\ time_groups = << >>
    /\ grp_i = 0
    /\ time_group = << >>
    /\ sem_labels = << >>
    /\ semantic_clusters = << >>
    /\ sub_i = 0
    /\ substories = << >>
    /\ full_timeline = << >>
    /\ response = NoResponse
    /\ exc = "none"
    /\ calls = {}
    /\ cluster_calls = << >>
    /\ output \in TextsUpTo(MaxOutLen)
    /\ parsed = [ title |-> << >>, summary |-> << >> ]

\* output = response.choices[0].message.content.strip(), the loop, the return
ParseOutput ==
    /\ pc = "parse"
    /\ parsed' = summarize_parse(output)
    /\ pc' = "parsed"
    /\ UNCHANGED << OPENAI_API_KEY, NEWSAPI_KEY, articles, events, time_groups, grp_i,
                    time_group, sem_labels, semantic_clusters, sub_i, substories,
                    full_timeline, response, exc, calls, cluster_calls, output >>

NextParse == ParseOutput

SpecParse == InitParse /\ [][NextParse]_vars

----------------------------------------------------------------------------
(* Properties *)

RECURSIVE Concat(_)
Concat(ss) == IF ss = << >> THEN << >> ELSE Head(ss) \o Concat(Tail(ss))

\* the events of a segment, of a timeline: substory after substory
SegmentEvents(seg) ==
    Concat([ j \in 1..Len(seg.substories) |-> seg.substories[j].events ])

TimelineEvents(tl) == Concat([ k \in 1..Len(tl) |-> SegmentEvents(tl[k]) ])

Count(x, s) == Cardinality({ i \in 1..Len(s) : s[i] = x })

\* the same elements, each as often
SameBag(s, t) ==
    /\ Len(s) = Len(t)
    /\ \A x \in Range(s) \cup Range(t) : Count(x, s) = Count(x, t)

Days(i) == date_to_days(DateStrs[events[i].date])

NonDecreasing(s) == \A i \in 1..(Len(s) - 1) : s[i] <= s[i + 1]

MinDay(evs) == CHOOSE d \in { Days(i) : i \in Range(evs) } :
                   \A i \in Range(evs) : d <= Days(i)

Answered == pc = "done"

ExtractionFailures == { "extract_llm", "extract_shape" }

\* the run got through get_articles and every extract_events
Extracted == pc = "done" /\ exc \notin ({ "search" } \cup ExtractionFailures)

\* C1: in a returned timeline every extracted event (each occurrence) is in the
\* events of exactly one substory of exactly one segment, and the time groups the
\* loop runs over hold every event exactly once.
C1_EveryEventInOneSubstory ==
    /\ pc \in { "bucket", "substory" } =>
          \A i \in 1..Len(events) : Count(i, Concat(time_groups)) = 1
    /\ response.status = 200 =>
          /\ Range(TimelineEvents(response.timeline)) = 1..Len(events)
          /\ \A i \in 1..Len(events) : Count(i, TimelineEvents(response.timeline)) = 1

\* C1 witness: a timeline of several segments is returned for five events, two
\* of them equal.
C1_Witness ==
    /\ response.status = 200
    /\ Len(events) = 5
    /\ Len(response.timeline) >= 2
    /\ \E i, j \in 1..Len(events) : i # j /\ events[i] = events[j]

\* C2: in a returned timeline whose event dates strptime accepts, the segments
\* are in non-decreasing order of their earliest calendar date, and the events of
\* every substory are in non-decreasing order of calendar date.
C2_ChronologicalOrder ==
    (/\ response.status = 200
     /\ \A i \in 1..Len(events) : StrptimeAccepts(DateStrs[events[i].date])) =>
        /\ NonDecreasing([ k \in 1..Len(response.timeline) |->
                             MinDay(SegmentEvents(response.timeline[k])) ])
        /\ \A k \in 1..Len(response.timeline) :
              \A j \in 1..Len(response.timeline[k].substories) :
                 LET evs == response.timeline[k].substories[j].events
                 IN  NonDecreasing([ i \in 1..Len(evs) |-> Days(evs[i]) ])

\* C3: with both keys set, a run whose extraction ends with no event is answered
\* with status 200 and an empty timeline.
C3_EmptyInputGivesEmptyTimeline ==
    (Extracted /\ OPENAI_API_KEY /\ NEWSAPI_KEY /\ Len(events) = 0) =>
        /\ response.status = 200
        /\ response.timeline = << >>

\* C4: a run with at least one and fewer than n_clusters events does not fail in
\* cluster_by_time.
C4_FewEventsArePartitioned ==
    (Extracted /\ Len(events) \in 1..(n_clusters - 1)) =>
        exc \notin { "kmeans_no_samples", "kmeans_few_samples" }

\* C5: no failure of the extraction for one article ends the run.
C5_ExtractionFailureIsLocal ==
    Answered => exc \notin ExtractionFailures

\* C6: the answer is either an error (status 500, a message, no timeline) or a
\* timeline with one segment per time bucket, each holding all events of its
\* bucket; nothing else is answered.
C6_CompleteTimelineOrError ==
    Answered =>
        \/ /\ response.status = 500
           /\ response.detail = exc
           /\ exc # "none"
           /\ response.timeline = << >>
        \/ /\ response.status = 200
           /\ exc = "none"
           /\ Len(response.timeline) = Len(time_groups)
           /\ \A g \in 1..Len(time_groups) :
                 SameBag(SegmentEvents(response.timeline[g]), time_groups[g])
           /\ SameBag(Concat(time_groups), [ i \in 1..Len(events) |-> i ])

\* C6 witness: a summarization call failed in a run of at least n_clusters events
\* and the answer is the error.
C6_Witness ==
    /\ Answered
    /\ exc = "summarize"
    /\ response.status = 500
    /\ Len(events) >= n_clusters

\* C7: while a key is missing no outbound call has been issued, and the run does
\* not end in an answer other than a configuration error.
C7_MissingKeyFailsBeforeAnyCall ==
    (~OPENAI_API_KEY \/ ~NEWSAPI_KEY) =>
        /\ calls = {}
        /\ pc # "done"

\* C8: cluster_events is never invoked for a bucket of fewer than 5 events, whose
\* segment has one substory holding all the bucket's events; it is invoked exactly
\* once for a bucket of 5 or more events.
C8_ThresholdDecidesSubclustering ==
    pc \in { "bucket", "substory", "done" } =>
        \A g \in 1..Len(time_groups) :
           LET size    == Len(time_groups[g])
               built   == g <= Len(full_timeline)
               started == built \/ (g = grp_i /\ pc = "substory")
           IN  /\ size < 5 =>
                     /\ cluster_calls[g] = 0
                     /\ built =>
                           /\ Len(full_timeline[g].substories) = 1
                           /\ SameBag(full_timeline[g].substories[1].events, time_groups[g])
               /\ size >= 5 => cluster_calls[g] = (IF started THEN 1 ELSE 0)

\* C8 witness: a bucket of exactly 5 events was sub-clustered once and its segment
\* is in the answer.
C8_Witness ==
    /\ response.status = 200
    /\ \E g \in 1..Len(time_groups) :
          Len(time_groups[g]) = 5 /\ cluster_calls[g] = 1

\* the events of time_group HDBSCAN gave label l, in the order of time_group
Labelled(l) ==
    LET at == { i \in 1..Len(time_group) : sem_labels[i] = l }
        RECURSIVE take(_)
        take(n) == IF n = 0 THEN << >>
                   ELSE IF n \in at THEN Append(take(n - 1), time_group[n])
                   ELSE take(n - 1)
    IN  take(Len(time_group))

\* C10: for a sub-clustered bucket, cluster_events returns one cluster per
\* distinct label, each holding exactly the events with that label (the noise
\* events under -1); the clusters are disjoint and cover the bucket; and each
\* cluster becomes one substory.
C10_OneClusterPerLabel ==
    LET subclustered == \/ pc = "substory"
                        \/ /\ pc \in { "bucket", "done" }
                           /\ grp_i > 1
                           /\ Len(time_groups) >= grp_i - 1
                           /\ cluster_calls[grp_i - 1] = 1
        n == Len(semantic_clusters)
    IN  subclustered =>
          /\ Len(sem_labels) = Len(time_group)
          /\ { semantic_clusters[j].label : j \in 1..n } = Range(sem_labels)
          /\ n = Cardinality(Range(sem_labels))
          /\ \A j \in 1..n :
                semantic_clusters[j].items = Labelled(semantic_clusters[j].label)
          /\ SameBag(Concat([ j \in 1..n |-> semantic_clusters[j].items ]), time_group)
          /\ \A j \in 1..Len(substories) :
                SameBag(substories[j].events, semantic_clusters[j].items)
          /\ pc = "substory" => Len(substories) = sub_i - 1
          /\ pc \in { "bucket", "done" } =>
                /\ Len(substories) = n
                /\ full_timeline[grp_i - 1].substories = substories

\* C10 witness: the segment of a bucket with noise events and a cluster is about
\* to be appended, the noise events being one of its substories.
C10_Witness ==
    /\ pc = "substory"
    /\ sub_i > Len(semantic_clusters)
    /\ -1 \in Range(sem_labels)
    /\ 0 \in Range(sem_labels)
    /\ \E j \in 1..Len(substories) :
          SameBag(substories[j].events, Labelled(-1))

\* a response of the shape "Title: X", newline, "Summary: Y", X and Y texts of
\* one line without blanks at their ends
WellFormed(text) ==
    LET nl == { i \in 1..Len(text) : text[i] = "\n" }
        p  == CHOOSE i \in nl : TRUE
        trimmed(x) == x # << >> /\ ~IsSpace(x[1]) /\ ~IsSpace(x[Len(x)])
    IN  /\ Cardinality(nl) = 1
        /\ p >= 4
        /\ Len(text) >= p + 3
        /\ text[1] = "Title:" /\ text[2] = " "
        /\ text[p + 1] = "Summary:" /\ text[p + 2] = " "
        /\ trimmed(SubSeq(text, 3, p - 1))
        /\ trimmed(SubSeq(text, p + 3, Len(text)))

TitleOf(text) ==
    LET p == CHOOSE i \in 1..Len(text) : text[i] = "\n" IN SubSeq(text, 3, p - 1)

SummaryOf(text) ==
    LET p == CHOOSE i \in 1..Len(text) : text[i] = "\n" IN SubSeq(text, p + 3, Len(text))

LineStarts(text, label) ==
    \E k \in 1..Len(SplitLines(Strip(text))) : StartsWith(SplitLines(Strip(text))[k], label)

\* C9: the parsing gives an empty title when no line starts with "Title:", an
\* empty summary when no line starts with "Summary:", and for the response
\* "Title: X", "Summary: Y" exactly X and Y.
C9_ParseGivesTitleAndSummary ==
    pc = "parsed" =>
        /\ ~LineStarts(output, "Title:") => parsed.title = << >>
        /\ ~LineStarts(output, "Summary:") => parsed.summary = << >>
        /\ WellFormed(output) =>
              /\ parsed.title = TitleOf(output)
              /\ parsed.summary = SummaryOf(output)

\* The phase the run is in, by the operation it is at: 1 fetching the articles
\* (get_articles), 2 extracting events (extract_events), 3 partitioning
\* (cluster_by_time), 4 sub-clustering (cluster_events), 5 summarizing
\* (summarize_with_gpt and the substory or segment made of its result), 6 the
\* timeline is complete and returned, 7 answered.  0: the module is not imported.
Phase ==
    CASE pc = "import"    -> 0
      [] pc = "request"   -> 1
      [] pc = "extract"   -> 2
      [] pc = "partition" -> 3
      [] pc = "bucket"    -> IF grp_i > Len(time_groups) THEN 6
                             ELSE IF BelowThreshold(time_groups[grp_i]) THEN 5
                             ELSE 4
      [] pc = "substory"  -> 5
      [] OTHER            -> 7

SubClustering == Phase = 4

\* C11: no step of a run takes it to an earlier phase (fetching, extracting,
\* partitioning, sub-clustering, summarizing, assembled), and no sub-clustering
\* step comes after a summarization call was issued.
C11_PhasesInOrder ==
    [][ /\ Phase' >= Phase
        /\ SubClustering' => "summarize_llm" \notin calls' ]_vars

====
